---- MODULE Spec2Model ----
(***************************************************************************)
(* Click models of allrank/click_models/base.py.                           *)
(*                                                                         *)
(* A click model is a record tagged with the name of its class and holding *)
(* the fields its constructor stores.  click is an operator from a model   *)
(* and a relevance sequence y to the SET of outcomes the call can have,    *)
(* one per outcome of the random draws it makes.  Document index i of the  *)
(* code (0-based) is position i+1 of a TLA+ sequence.                      *)
(*                                                                         *)
(* numpy values: a click result is an error (the call raised), a 0-d       *)
(* value (numpy scalar) or a 1-d array.  Booleans are kept as 0/1, as      *)
(* Python's True == 1 and False == 0; numpy promotes them to integers in   *)
(* cumsum.  A MultipleClickModel is given as many probabilities as click   *)
(* models, as its docstring requires.  Probabilities and draws are         *)
(* fixed-point numbers in units of 1e-6, so 1.0 is One and the tolerance   *)
(* 1e-5 is AbsTol.                                                         *)
(***************************************************************************)
EXTENDS Integers, Sequences, FiniteSets, TLC

VARIABLES model, given, docs, out, op

vars == <<model, given, docs, out, op>>

(* ------------------------------ bounds -------------------------------- *)
MaxDocs == 3
MaxChildren == 2
MaxPositions == 2

(* ------------------------ fixed-point constants ----------------------- *)
One == 1000000
AbsTol == 10
RelTolInv == 1000000000

(* ------------------------------ helpers ------------------------------- *)
BSeq(S, n) == UNION {[1..k -> S] : k \in 0..n}

Abs(a) == IF a < 0 THEN 0 - a ELSE a

Max(a, b) == IF a >= b THEN a ELSE b

RECURSIVE np_sum(_)
np_sum(s) == IF s = <<>> THEN 0 ELSE s[1] + np_sum(Tail(s))

RECURSIVE cumsum(_)
cumsum(s) ==
    IF s = <<>> THEN <<>>
    ELSE LET front == cumsum(SubSeq(s, 1, Len(s) - 1))
         IN  Append(front, (IF front = <<>> THEN 0 ELSE front[Len(front)]) + s[Len(s)])

\* isclose with the bound excluded
isclose_strict(a, b) == Abs(a - b) < Max(Max(Abs(a), Abs(b)) \div RelTolInv, AbsTol)

\* math.isclose(a, b, abs_tol=...) with the default rel_tol of 1e-9
isclose(a, b) == Abs(a - b) <= Max(Max(Abs(a), Abs(b)) \div RelTolInv, AbsTol)

\* np.argmax of a boolean array: 0-based index of the first True, 0 when none is
argmax(b) ==
    IF \E i \in 1..Len(b) : b[i]
    THEN (CHOOSE i \in 1..Len(b) : b[i] /\ \A j \in 1..(i - 1) : ~b[j]) - 1
    ELSE 0

(* --------------------------- numpy values ----------------------------- *)
Raised == [ok |-> FALSE, ndim |-> 0, vals |-> <<>>]

Scalar(v) == [ok |-> TRUE, ndim |-> 0, vals |-> <<v>>]

Array(s) == [ok |-> TRUE, ndim |-> 1, vals |-> s]

NoDraw == 0 - 1

Outcome(r, calls, child_res, u) ==
    [res |-> r, calls |-> calls, child_res |-> child_res, draw |-> u]

(* ---------------------------- constructors ---------------------------- *)
NoModel == [kind |-> "None"]

RandomClickModel(n_clicks) == [kind |-> "Random", n_clicks |-> n_clicks]

FixedClickModel(click_positions) ==
    [kind |-> "Fixed", click_positions |-> click_positions]

OnlyRelevantClickModel(relevancy_threshold) ==
    [kind |-> "OnlyRelevant", relevancy_threshold |-> relevancy_threshold]

\* the assert of __init__: TRUE when construction goes through
MultipleClickModel_accepts(probabilities) == isclose(np_sum(probabilities), One)

MultipleClickModel(click_models, probabilities) ==
    [kind |-> "Multiple", click_models |-> click_models,
     probabilities |-> cumsum(probabilities)]

ConditionedClickModel(click_models, combiner) ==
    [kind |-> "Conditioned", click_models |-> click_models, combiner |-> combiner]

\* has_limit = FALSE is max_clicks = None
MaxClicksModel(click_model, has_limit, max_clicks) ==
    [kind |-> "MaxClicks", click_model |-> click_model,
     has_limit |-> has_limit, max_clicks |-> max_clicks]

(* ------------------------------- click -------------------------------- *)
\* np.random.choice(range(n), size=n_clicks, replace=False), then mask[clicks] = 1
RandomClickModel_click(m, y) ==
    LET n == Len(y)
    IN  IF m.n_clicks < 0 \/ m.n_clicks > n
        THEN {Outcome(Raised, <<>>, <<>>, NoDraw)}
        ELSE IF n = 0
        \* np.array(range(0)) is a float64 array, so the empty sample is one
        \* too, and indexing mask with a float array raises IndexError
        THEN {Outcome(Raised, <<>>, <<>>, NoDraw)}
        ELSE {Outcome(Array([i \in 1..n |-> IF (i - 1) \in clicks THEN 1 ELSE 0]),
                      <<>>, <<>>, NoDraw) :
                clicks \in {S \in SUBSET (0..(n - 1)) : Cardinality(S) = m.n_clicks}}

\* FixedClickModel_click accepting the position n
FixedClickModel_click_upto(m, y) ==
    LET n == Len(y)
        ps == m.click_positions
        at(p) == IF p < 0 THEN p + n ELSE p
    IN  IF \E k \in 1..Len(ps) : ps[k] > n \/ ps[k] < 0 - n
        THEN {Outcome(Raised, <<>>, <<>>, NoDraw)}
        ELSE {Outcome(Array([i \in 1..n |->
                               IF \E k \in 1..Len(ps) : at(ps[k]) = i - 1
                               THEN 1 ELSE 0]),
                      <<>>, <<>>, NoDraw)}

\* FixedClickModel_click adding 1 per listed position instead of storing 1
FixedClickModel_click_adding(m, y) ==
    LET n == Len(y)
        ps == m.click_positions
        at(p) == IF p < 0 THEN p + n ELSE p
    IN  IF \E k \in 1..Len(ps) : ps[k] >= n \/ ps[k] < 0 - n
        THEN {Outcome(Raised, <<>>, <<>>, NoDraw)}
        ELSE {Outcome(Array([i \in 1..n |->
                               Cardinality({k \in 1..Len(ps) : at(ps[k]) = i - 1})]),
                      <<>>, <<>>, NoDraw)}

\* clicks[self.click_positions] = 1: numpy index p addresses p, or n + p when
\* -n <= p < 0, and raises IndexError outside [-n, n)
FixedClickModel_click(m, y) ==
    LET n == Len(y)
        ps == m.click_positions
        at(p) == IF p < 0 THEN p + n ELSE p
    IN  IF \E k \in 1..Len(ps) : ps[k] >= n \/ ps[k] < 0 - n
        THEN {Outcome(Raised, <<>>, <<>>, NoDraw)}
        ELSE {Outcome(Array([i \in 1..n |->
                               IF \E k \in 1..Len(ps) : at(ps[k]) = i - 1
                               THEN 1 ELSE 0]),
                      <<>>, <<>>, NoDraw)}

\* OnlyRelevantClickModel_click with the threshold excluded
OnlyRelevantClickModel_click_strict(m, y) ==
    {Outcome(Array([i \in 1..Len(y) |->
                      IF y[i] > m.relevancy_threshold THEN 1 ELSE 0]),
             <<>>, <<>>, NoDraw)}

OnlyRelevantClickModel_click(m, y) ==
    {Outcome(Array([i \in 1..Len(y) |->
                      IF y[i] >= m.relevancy_threshold THEN 1 ELSE 0]),
             <<>>, <<>>, NoDraw)}

\* the values np.random.rand() is drawn from: [0, 1) sampled at 0, just below
\* 1.0, and at and just below every cumulative threshold
Draws(cumulative) ==
    {u \in {0, One - 1} \cup {cumulative[i] : i \in 1..Len(cumulative)}
                       \cup {cumulative[i] - 1 : i \in 1..Len(cumulative)} :
       0 <= u /\ u < One}

\* np.all / np.any of a list of 0/1 values
reduce(combiner, vs) ==
    IF combiner = "all"
    THEN (IF \A v \in vs : v # 0 THEN 1 ELSE 0)
    ELSE (IF \E v \in vs : v # 0 THEN 1 ELSE 0)

\* self.combiner(clicks_from_click_models, 0): the list becomes one array and
\* is reduced along axis 0; a list of arrays of unequal shapes does not
\* become an array (ValueError)
combine(combiner, rs) ==
    IF rs = <<>>
    THEN Scalar(reduce(combiner, {}))
    ELSE IF \A i \in 1..Len(rs) : rs[i].ndim = 0
    THEN Scalar(reduce(combiner, {rs[i].vals[1] : i \in 1..Len(rs)}))
    ELSE IF \A i \in 1..Len(rs) :
              rs[i].ndim = 1 /\ Len(rs[i].vals) = Len(rs[1].vals)
    THEN Array([j \in 1..Len(rs[1].vals) |->
                  reduce(combiner, {rs[i].vals[j] : i \in 1..Len(rs)})])
    ELSE Raised

\* limit suppressing the click that reaches max_clicks
limit_strict(underlying, max_clicks) ==
    LET c == cumsum(underlying.vals)
    IN  Array([i \in 1..Len(c) |->
                 underlying.vals[i] * (IF c[i] < max_clicks THEN 1 ELSE 0)])

\* underlying_clicks * (underlying_clicks.cumsum() <= self.max_clicks);
\* cumsum of a 0-d value is a 1-d array of one element
limit(underlying, max_clicks) ==
    LET c == cumsum(underlying.vals)
    IN  Array([i \in 1..Len(c) |->
                 underlying.vals[i] * (IF c[i] <= max_clicks THEN 1 ELSE 0)])

RECURSIVE click(_, _)
RECURSIVE collect(_, _, _)

\* [click_model.click(documents) for click_model in self.click_models], from
\* child i on: the results in order, ending at the first child that raises
collect(ms, y, i) ==
    IF i > Len(ms) THEN {<<>>}
    ELSE UNION {IF o.res.ok
                THEN {<<o.res>> \o rest : rest \in collect(ms, y, i + 1)}
                ELSE {<<o.res>>} : o \in click(ms[i], y)}

MultipleClickModel_click(m, y) ==
    IF m.probabilities = <<>>
    THEN {Outcome(Raised, <<>>, <<>>, NoDraw)}
    ELSE UNION {LET index == argmax([i \in 1..Len(m.probabilities) |->
                                       u < m.probabilities[i]])
                IN  IF index + 1 > Len(m.click_models)
                    THEN {Outcome(Raised, <<>>, <<>>, u)}
                    ELSE {Outcome(o.res, <<index>>, <<o.res>>, u) :
                            o \in click(m.click_models[index + 1], y)}
                : u \in Draws(m.probabilities)}

ConditionedClickModel_click(m, y) ==
    {Outcome(IF rs # <<>> /\ ~rs[Len(rs)].ok THEN Raised
             ELSE combine(m.combiner, rs),
             [i \in 1..Len(rs) |-> i - 1], rs, NoDraw) :
       rs \in collect(m.click_models, y, 1)}

MaxClicksModel_click(m, y) ==
    {Outcome(IF ~o.res.ok THEN Raised
             ELSE IF m.has_limit THEN limit(o.res, m.max_clicks)
             ELSE o.res,
             <<0>>, <<o.res>>, NoDraw) :
       o \in click(m.click_model, y)}

click(m, y) ==
    CASE m.kind = "Random" -> RandomClickModel_click(m, y)
      [] m.kind = "Fixed" -> FixedClickModel_click(m, y)
      [] m.kind = "OnlyRelevant" -> OnlyRelevantClickModel_click(m, y)
      [] m.kind = "Multiple" -> MultipleClickModel_click(m, y)
      [] m.kind = "Conditioned" -> ConditionedClickModel_click(m, y)
      [] m.kind = "MaxClicks" -> MaxClicksModel_click(m, y)

(* ------------------------------ inputs -------------------------------- *)
\* relevance sequences; the features are not read by any click model
Relevances == {0, 1}

Thresholds == {0, 1, 2}

Documents == BSeq(Relevances, MaxDocs)

ProbValues == {0, 499989, 499990, 500000, 900000, 999995, 1000000, 1000010}

Combiners == {"all", "any"}

ChildLeaves ==
    {RandomClickModel(1), FixedClickModel(<<0>>), OnlyRelevantClickModel(1)}

\* the models listed in a ConditionedClickModel: leaves and combinators
Kids ==
    {FixedClickModel(<<0>>), OnlyRelevantClickModel(1),
     ConditionedClickModel(<<>>, "all"),
     MaxClicksModel(OnlyRelevantClickModel(1), TRUE, 1)}

\* the children of a MultipleClickModel of k children: the leaves in turn, so
\* that neighbouring children differ
MultipleChildren(k) ==
    LET leaves == <<RandomClickModel(1), OnlyRelevantClickModel(1),
                    FixedClickModel(<<0>>)>>
    IN  [i \in 1..k |-> leaves[((i - 1) % Len(leaves)) + 1]]

NoOutcome == Outcome(Raised, <<>>, <<>>, NoDraw)

(* --------------------------- state machine ---------------------------- *)
Init ==
    /\ model = NoModel
    /\ given = <<>>
    /\ docs = <<>>
    /\ out = NoOutcome
    /\ op = "start"

\* an instance is constructed once and then clicked any number of times
Constructed(m) ==
    /\ op = "start"
    /\ model' = m
    /\ given' = <<>>
    /\ docs' = <<>>
    /\ out' = NoOutcome
    /\ op' = "construct"

ConstructRandom ==
    \E n_clicks \in (0 - 1)..(MaxDocs + 1) : Constructed(RandomClickModel(n_clicks))

ConstructFixed ==
    \E ps \in BSeq((0 - (MaxDocs + 1))..MaxDocs, MaxPositions) :
        Constructed(FixedClickModel(ps))

ConstructOnlyRelevant ==
    \E t \in Thresholds : Constructed(OnlyRelevantClickModel(t))

ConstructMultiple ==
    \E k \in 0..MaxChildren :
      \E ps \in [1..k -> ProbValues] :
        /\ op = "start"
        /\ given' = ps
        /\ docs' = <<>>
        /\ out' = NoOutcome
        /\ IF MultipleClickModel_accepts(ps)
           THEN model' = MultipleClickModel(MultipleChildren(k), ps) /\ op' = "construct"
           ELSE model' = NoModel /\ op' = "construct_failed"

ConstructConditioned ==
    \E ms \in BSeq(Kids, MaxChildren), c \in Combiners :
        Constructed(ConditionedClickModel(ms, c))

ConstructMaxClicks ==
    \E m \in ChildLeaves \cup Kids, has_limit \in BOOLEAN, max_clicks \in 0..(MaxDocs + 1) :
        /\ (~has_limit => max_clicks = 0)
        /\ Constructed(MaxClicksModel(m, has_limit, max_clicks))

Click ==
    /\ model # NoModel
    /\ \E y \in Documents :
         \E o \in click(model, y) :
            /\ docs' = y
            /\ out' = o
            /\ op' = "click"
    /\ UNCHANGED <<model, given>>

Next ==
    \/ ConstructRandom
    \/ ConstructFixed
    \/ ConstructOnlyRelevant
    \/ ConstructMultiple
    \/ ConstructConditioned
    \/ ConstructMaxClicks
    \/ Click

Spec == Init /\ [][Next]_vars

(* ------------------------------ claims -------------------------------- *)
Min(a, b) == IF a <= b THEN a ELSE b

\* number of entries equal to 1 among the first i entries of c
Ones(c, i) == Cardinality({j \in 1..i : c[j] = 1})

IsMask(r, n) ==
    /\ r.ok
    /\ r.ndim = 1
    /\ Len(r.vals) = n
    /\ \A i \in 1..n : r.vals[i] \in {0, 1}

\* running sums of the probabilities handed to the constructor
Cumulative(i) == np_sum(SubSeq(given, 1, i))

\* C1: with a limit, MaxClicksModel.click keeps click i of the child's 0/1
\* mask exactly when the number of clicks in c[0..i] is at most max_clicks,
\* so the first min(max_clicks, clicks of c) clicks survive and no later one
C1_Case ==
    /\ op = "click"
    /\ model.kind = "MaxClicks"
    /\ model.has_limit
    /\ IsMask(out.child_res[1], Len(docs))

C1_MaxClicksKeepsFirstClicks ==
    C1_Case =>
      LET c == out.child_res[1].vals
          r == out.res
          n == Len(c)
      IN  /\ IsMask(r, n)
          /\ \A i \in 1..n :
               r.vals[i] = (IF c[i] = 1 /\ Ones(c, i) <= model.max_clicks
                            THEN 1 ELSE 0)
          /\ Ones(r.vals, n) = Min(model.max_clicks, Ones(c, n))
          /\ \A i \in 1..n : r.vals[i] = 1 => Ones(r.vals, i) = Ones(c, i)

C1_Witness ==
    /\ C1_Case
    /\ model.max_clicks = 2
    /\ out.child_res[1].vals = <<1, 1, 1>>
    /\ out.res.vals = <<1, 1, 0>>

\* C2: MultipleClickModel.click invokes exactly one child, the one at the
\* first index i with u < cumulative[i], and returns its mask unmodified
C2_MultipleDelegatesToFirstBucket ==
    (op = "click" /\ model.kind = "Multiple") =>
      \E i \in 1..Len(given) :
        /\ out.draw < Cumulative(i)
        /\ \A j \in 1..(i - 1) : ~(out.draw < Cumulative(j))
        /\ out.calls = <<i - 1>>
        /\ out.res = out.child_res[1]

\* C3: constructing a MultipleClickModel fails, producing no instance, when
\* the probabilities sum to more than 1e-5 away from 1.0, and succeeds when
\* the sum is within 1e-5 of 1.0
C3_ConstructionChecksSum ==
    /\ op = "construct_failed" =>
         (model = NoModel /\ Abs(np_sum(given) - One) > AbsTol)
    /\ model.kind = "Multiple" =>
         (op # "construct_failed" /\ Abs(np_sum(given) - One) <= AbsTol)

C3_Witness ==
    /\ op = "construct_failed"
    /\ model = NoModel
    /\ given = <<499989, 500000>>

\* C4: click never delegates to a child whose probability is exactly 0
C4_ZeroProbabilityChildUnreachable ==
    (op = "click" /\ model.kind = "Multiple") =>
      \A k \in 1..Len(out.calls) : given[out.calls[k] + 1] # 0

\* C5 as stated: a position outside [0, n) makes FixedClickModel.click end
\* in an error
C5_Case == op = "click" /\ model.kind = "Fixed"

C5_OutsideZeroToNRaises ==
    (C5_Case /\ \E k \in 1..Len(model.click_positions) :
                   \/ model.click_positions[k] < 0
                   \/ model.click_positions[k] >= Len(docs))
      => ~out.res.ok

\* C5 amended: a position at or above n, or below -n, makes
\* FixedClickModel.click end in an error and return no mask
C5_OutsideMinusNToNRaises ==
    (C5_Case /\ \E k \in 1..Len(model.click_positions) :
                   \/ model.click_positions[k] < 0 - Len(docs)
                   \/ model.click_positions[k] >= Len(docs))
      => out.res = Raised

C5_Witness ==
    /\ C5_Case
    /\ Len(docs) = 2
    /\ model.click_positions = <<0, 2>>
    /\ out.res = Raised

\* C6: with 0 <= n_clicks <= number of documents, RandomClickModel.click
\* returns a 0/1 mask of the documents' length with exactly n_clicks ones
C6_RandomClicksExactlyN ==
    (/\ op = "click"
     /\ model.kind = "Random"
     /\ 0 <= model.n_clicks
     /\ model.n_clicks <= Len(docs))
      => (IsMask(out.res, Len(docs)) /\ Ones(out.res.vals, Len(docs)) = model.n_clicks)

\* C7: ConditionedClickModel.click invokes every child once, in order, and
\* returns a mask of the documents' length whose entry i is the reduction of
\* the children's entries i: all of them 1 for "all", some of them 1 for "any"
C7_ConditionedReducesPointwise ==
    (op = "click" /\ model.kind = "Conditioned" /\ out.res.ok) =>
      LET k == Len(model.click_models)
          n == Len(docs)
      IN  /\ out.calls = [i \in 1..k |-> i - 1]
          /\ IsMask(out.res, n)
          /\ \A i \in 1..n :
               out.res.vals[i] = 1 <=>
                 IF model.combiner = "all"
                 THEN \A c \in 1..k : out.child_res[c].vals[i] = 1
                 ELSE \E c \in 1..k : out.child_res[c].vals[i] = 1

\* C8: with every position in [0, n), FixedClickModel.click returns 1 exactly
\* at the listed positions and 0 elsewhere, and a repeated call on the same
\* instance and documents returns the same mask
C8_Case ==
    /\ op = "click"
    /\ model.kind = "Fixed"
    /\ \A k \in 1..Len(model.click_positions) :
         0 <= model.click_positions[k] /\ model.click_positions[k] < Len(docs)

C8_MaskIsPositions ==
    C8_Case =>
      /\ IsMask(out.res, Len(docs))
      /\ \A i \in 1..Len(docs) :
           out.res.vals[i] = 1 <=>
             (i - 1) \in {model.click_positions[k] :
                            k \in 1..Len(model.click_positions)}

C8_RepeatedCall ==
    (C8_Case /\ C8_Case' /\ model' = model /\ docs' = docs) => out'.res = out.res

C8_FixedClicksListedPositions ==
    [](C8_MaskIsPositions) /\ [][C8_RepeatedCall]_vars

C8_Witness ==
    /\ C8_Case
    /\ model.click_positions = <<1, 1>>
    /\ Len(docs) = 3
    /\ out.res.vals = <<0, 1, 0>>

\* C9: OnlyRelevantClickModel.click returns a mask of the documents' length
\* whose entry i is 1 if and only if relevance[i] >= threshold, else 0
C9_Case == op = "click" /\ model.kind = "OnlyRelevant"

C9_ClicksAtOrAboveThreshold ==
    C9_Case =>
      /\ IsMask(out.res, Len(docs))
      /\ \A i \in 1..Len(docs) :
           out.res.vals[i] = 1 <=> docs[i] >= model.relevancy_threshold

C9_Witness ==
    /\ C9_Case
    /\ model.relevancy_threshold = 1
    /\ docs = <<0, 1>>
    /\ out.res.vals = <<0, 1>>

\* C10: every click call that returns, on any nesting of the built-in
\* models, returns a mask of the documents' length with entries in {0, 1}
C10_EveryResultIsMask ==
    (op = "click" /\ out.res.ok) => IsMask(out.res, Len(docs))
====
